---- MODULE Spec2Model ----
(***************************************************************************)
(* Model of upright_control/dynamics/system_pinocchio_mapping.h:           *)
(* TripleIntegratorPinocchioMapping, the shared OBSTACLE_PINOCCHIO_MAPPING *)
(* and SystemPinocchioMapping<Mapping, Scalar> with                        *)
(* Mapping = TripleIntegratorPinocchioMapping.                             *)
(*                                                                         *)
(* Vectors are sequences of integers.  A matrix is a record                *)
(* [rows, cols, a] where a is the sequence of its rows.  Every method of   *)
(* SystemPinocchioMapping runs as a process: Call (allocation and locals), *)
(* RobotStep, one ObsStep per obstacle, Return.                            *)
(***************************************************************************)
EXTENDS Integers, Sequences, FiniteSets

\* ------------------------------------------------------------------ bounds
MaxN == 2        \* robot.q and robot.v range over 1..MaxN
MaxU == 1        \* robot.u ranges over 0..MaxU
MaxO == 2        \* obstacle count o ranges over 0..MaxO
MaxRows == 1     \* Jacobian rows (output_dim) range over 0..MaxRows
MaxSeed == 1     \* argument families are indexed by 0..MaxSeed
MaxInst == 2     \* the original instance and its clones

\* --------------------------------------------------------- Eigen primitives
\* VecXs::Zero(n)
ZeroVec(n) == [k \in 1..n |-> 0]

\* v.head(n)
Head_(v, n) == SubSeq(v, 1, n)

\* v.segment(start, n), start counted from 0
Segment(v, start, n) == SubSeq(v, start + 1, start + n)

\* v.tail(n)
Tail_(v, n) == SubSeq(v, Len(v) - n + 1, Len(v))

\* dst.segment(start, n) = w
SetSegment(dst, start, n, w) ==
    [k \in 1..Len(dst) |->
        IF k > start /\ k <= start + n THEN w[k - start] ELSE dst[k]]

\* dst.head(n) = w
SetHead(dst, n, w) == SetSegment(dst, 0, n, w)

\* MatXs::Zero(r, c)
ZeroMat(r, c) ==
    [rows |-> r, cols |-> c, a |-> [i \in 1..r |-> [j \in 1..c |-> 0]]]

\* M.middleCols(start, n), start counted from 0
MiddleCols(M, start, n) ==
    [rows |-> M.rows, cols |-> n,
     a |-> [i \in 1..M.rows |-> [j \in 1..n |-> M.a[i][start + j]]]]

\* M.leftCols(n)
LeftCols(M, n) == MiddleCols(M, 0, n)

\* dfdx << A, B, C  (comma initializer: the three blocks side by side)
HCat3(A, B, C) ==
    [rows |-> A.rows, cols |-> A.cols + B.cols + C.cols,
     a |-> [i \in 1..A.rows |-> [j \in 1..(A.cols + B.cols + C.cols) |->
              IF j <= A.cols THEN A.a[i][j]
              ELSE IF j <= A.cols + B.cols THEN B.a[i][j - A.cols]
              ELSE C.a[i][j - A.cols - B.cols]]]]

\* dst.middleCols(start, n) = B.  With a B of n columns this is the block
\* assignment; with a wider B (a size mismatch that Eigen only asserts on)
\* the copy runs over the destination block and takes B's first n columns.
SetMiddleCols(dst, start, n, B) ==
    [rows |-> dst.rows, cols |-> dst.cols,
     a |-> [i \in 1..dst.rows |-> [j \in 1..dst.cols |->
              IF j > start /\ j <= start + n THEN B.a[i][j - start]
              ELSE dst.a[i][j]]]]

\* Values an uninitialised Eigen coefficient may hold.
Uninit == {0, -1}

\* VecXs v(n): n coefficients, not initialised
UninitVec(n, g) == [k \in 1..n |-> g]

\* MatXs M(r, c): r x c coefficients, not initialised
UninitMat(r, c, g) ==
    [rows |-> r, cols |-> c, a |-> [i \in 1..r |-> [j \in 1..c |-> g]]]

\* ----------------------------------------------------------- dimensions
\* RobotDimensions{q, v, x, u}
RobotDimensions(q, v, x, u) == [q |-> q, v |-> v, x |-> x, u |-> u]

\* Mutant: the obstacle is given three inputs (as the zero 3-vector u_obs
\* passed for it would suggest).
OBSTACLE_DIMENSIONS_with_input == RobotDimensions(3, 3, 9, 3)

OBSTACLE_DIMENSIONS == RobotDimensions(3, 3, 9, 0)

\* OptimizationDimensions: the robot's dimensions and the obstacle count o
OptimizationDimensions(robot, o) == [robot |-> robot, o |-> o]

dims_q(d) == d.robot.q + 3 * d.o

dims_v(d) == d.robot.v + 3 * d.o

dims_x(d) == d.robot.x + 9 * d.o

dims_u(d) == d.robot.u

\* ------------------------------------- TripleIntegratorPinocchioMapping
\* The constructor: the mapping holds its dimensions and nothing else.
TripleIntegratorPinocchioMapping(dims) == [dims_ |-> dims]

TI_getPinocchioJointPosition(self, state) == Head_(state, self.dims_.q)

TI_getPinocchioJointVelocity(self, state, input) ==
    Segment(state, self.dims_.q, self.dims_.v)

TI_getPinocchioJointAcceleration(self, state, input) ==
    Tail_(state, self.dims_.v)

\* Mutant: dfdx << Jv, Jq, Zero (the two Jacobians in the wrong order).
TI_getOcs2Jacobian_swapped(self, state, Jq, Jv) ==
    LET output_dim == Jq.rows
    IN  [dfdx |-> HCat3(Jv, Jq, ZeroMat(output_dim, self.dims_.v)),
         dfdu |-> ZeroMat(output_dim, self.dims_.u)]

TI_getOcs2Jacobian(self, state, Jq, Jv) ==
    LET output_dim == Jq.rows
    IN  [dfdx |-> HCat3(Jq, Jv, ZeroMat(output_dim, self.dims_.v)),
         dfdu |-> ZeroMat(output_dim, self.dims_.u)]

\* ------------------------------------------------ SystemPinocchioMapping
\* The constructor: dims_(dims), robot_mapping_(dims.robot).
SystemPinocchioMapping(dims) ==
    [dims_ |-> dims, robot_mapping_ |-> TripleIntegratorPinocchioMapping(dims.robot)]

\* Column blocks of dfdx the two kinds of write go to (start counted from 0).
\* Mutant: dfdx.leftCols(dims_.robot.q) = dfdx_robot
dfdx_robot_block_q(self) == [start |-> 0, n |-> self.dims_.robot.q]

dfdx_robot_block(self) == [start |-> 0, n |-> self.dims_.robot.x]

\* Mutant: dfdx.middleCols(dims_.robot.x + i * 3, 9) = dfdx_obs
dfdx_obs_block_stride3(self, i) == [start |-> self.dims_.robot.x + i * 3, n |-> 9]

dfdx_obs_block(self, i) == [start |-> self.dims_.robot.x + i * 9, n |-> 9]

dfdu_robot_block(self) == [start |-> 0, n |-> self.dims_.robot.u]

\* VecXs q_pin(dims_.q());
getPinocchioJointPosition_alloc(self, g) == UninitVec(dims_q(self.dims_), g)

\* q_pin.head(dims_.robot.q) = robot_mapping_.getPinocchioJointPosition(x_robot)
getPinocchioJointPosition_robot(self, state, q_pin) ==
    LET x_robot == Head_(state, self.dims_.robot.x)
    IN  SetHead(q_pin, self.dims_.robot.q,
                TI_getPinocchioJointPosition(self.robot_mapping_, x_robot))

\* Mutant: q_pin.segment(dims_.robot.v + i * 3, 3) = ...
getPinocchioJointPosition_obs_voffset(self, OBS, state, q_pin, i) ==
    LET x_obs == Segment(state, self.dims_.robot.x + i * 9, 9)
    IN  SetSegment(q_pin, self.dims_.robot.v + i * 3, 3,
                   TI_getPinocchioJointPosition(OBS, x_obs))

\* One pass of the obstacle loop, obstacle i.
getPinocchioJointPosition_obs(self, OBS, state, q_pin, i) ==
    LET x_obs == Segment(state, self.dims_.robot.x + i * 9, 9)
    IN  SetSegment(q_pin, self.dims_.robot.q + i * 3, 3,
                   TI_getPinocchioJointPosition(OBS, x_obs))

\* VecXs v_pin(dims_.v());
getPinocchioJointVelocity_alloc(self, g) == UninitVec(dims_v(self.dims_), g)

getPinocchioJointVelocity_robot(self, state, input, v_pin) ==
    LET x_robot == Head_(state, self.dims_.robot.x)
        u_robot == Head_(input, self.dims_.robot.u)
    IN  SetHead(v_pin, self.dims_.robot.v,
                TI_getPinocchioJointVelocity(self.robot_mapping_, x_robot, u_robot))

getPinocchioJointVelocity_obs(self, OBS, state, v_pin, i) ==
    LET u_obs == ZeroVec(3)
        x_obs == Segment(state, self.dims_.robot.x + i * 9, 9)
    IN  SetSegment(v_pin, self.dims_.robot.v + i * 3, 3,
                   TI_getPinocchioJointVelocity(OBS, x_obs, u_obs))

\* VecXs a_pin(dims_.v());
getPinocchioJointAcceleration_alloc(self, g) == UninitVec(dims_v(self.dims_), g)

getPinocchioJointAcceleration_robot(self, state, input, a_pin) ==
    LET x_robot == Head_(state, self.dims_.robot.x)
        u_robot == Head_(input, self.dims_.robot.u)
    IN  SetHead(a_pin, self.dims_.robot.v,
                TI_getPinocchioJointAcceleration(self.robot_mapping_, x_robot, u_robot))

\* Mutant: the acceleration loop calls getPinocchioJointVelocity.
getPinocchioJointAcceleration_obs_velocity(self, OBS, state, a_pin, i) ==
    LET u_obs == ZeroVec(3)
        x_obs == Segment(state, self.dims_.robot.x + i * 9, 9)
    IN  SetSegment(a_pin, self.dims_.robot.v + i * 3, 3,
                   TI_getPinocchioJointVelocity(OBS, x_obs, u_obs))

getPinocchioJointAcceleration_obs(self, OBS, state, a_pin, i) ==
    LET u_obs == ZeroVec(3)
        x_obs == Segment(state, self.dims_.robot.x + i * 9, 9)
    IN  SetSegment(a_pin, self.dims_.robot.v + i * 3, 3,
                   TI_getPinocchioJointAcceleration(OBS, x_obs, u_obs))

\* Mutant: MatXs dfdx(output_dim, dims_.q());
getOcs2Jacobian_alloc_q(self, Jq_pin, gx, gu) ==
    LET output_dim == Jq_pin.rows
    IN  [dfdx |-> UninitMat(output_dim, dims_q(self.dims_), gx),
         dfdu |-> UninitMat(output_dim, dims_u(self.dims_), gu)]

\* MatXs dfdx(output_dim, dims_.x()); MatXs dfdu(output_dim, dims_.u());
getOcs2Jacobian_alloc(self, Jq_pin, gx, gu) ==
    LET output_dim == Jq_pin.rows
    IN  [dfdx |-> UninitMat(output_dim, dims_x(self.dims_), gx),
         dfdu |-> UninitMat(output_dim, dims_u(self.dims_), gu)]

\* Mutant: the robot mapping's dfdx cut to the robot.x columns reserved for it.
getOcs2Jacobian_robot_pair_trimmed(self, state, Jq_pin, Jv_pin) ==
    LET x_robot == Head_(state, self.dims_.robot.x)
        Jq_pin_robot == LeftCols(Jq_pin, self.dims_.robot.q)
        Jv_pin_robot == LeftCols(Jv_pin, self.dims_.robot.v)
        pair == TI_getOcs2Jacobian(self.robot_mapping_, x_robot, Jq_pin_robot, Jv_pin_robot)
    IN  [dfdx |-> LeftCols(pair.dfdx, self.dims_.robot.x), dfdu |-> pair.dfdu]

\* What robot_mapping_.getOcs2Jacobian returns for the robot's share.
getOcs2Jacobian_robot_pair(self, state, Jq_pin, Jv_pin) ==
    LET x_robot == Head_(state, self.dims_.robot.x)
        Jq_pin_robot == LeftCols(Jq_pin, self.dims_.robot.q)
        Jv_pin_robot == LeftCols(Jv_pin, self.dims_.robot.v)
    IN  TI_getOcs2Jacobian(self.robot_mapping_, x_robot, Jq_pin_robot, Jv_pin_robot)

\* Mutant: the assignment of dfdu_robot is left out.
getOcs2Jacobian_robot_no_dfdu(self, state, Jq_pin, Jv_pin, J) ==
    LET pair == getOcs2Jacobian_robot_pair(self, state, Jq_pin, Jv_pin)
        bx == dfdx_robot_block(self)
    IN  [dfdx |-> SetMiddleCols(J.dfdx, bx.start, bx.n, pair.dfdx),
         dfdu |-> J.dfdu]

\* dfdx.leftCols(dims_.robot.x) = dfdx_robot; dfdu.leftCols(dims_.robot.u) = dfdu_robot;
getOcs2Jacobian_robot(self, state, Jq_pin, Jv_pin, J) ==
    LET pair == getOcs2Jacobian_robot_pair(self, state, Jq_pin, Jv_pin)
        bx == dfdx_robot_block(self)
        bu == dfdu_robot_block(self)
    IN  [dfdx |-> SetMiddleCols(J.dfdx, bx.start, bx.n, pair.dfdx),
         dfdu |-> SetMiddleCols(J.dfdu, bu.start, bu.n, pair.dfdu)]

\* The two block assignments have matching sizes (Eigen's eigen_assert).
getOcs2Jacobian_robot_fits(self, state, Jq_pin, Jv_pin) ==
    LET pair == getOcs2Jacobian_robot_pair(self, state, Jq_pin, Jv_pin)
    IN  /\ pair.dfdx.cols = dfdx_robot_block(self).n
        /\ pair.dfdu.cols = dfdu_robot_block(self).n

\* What OBSTACLE_PINOCCHIO_MAPPING.getOcs2Jacobian returns for obstacle i.
getOcs2Jacobian_obs_pair(self, OBS, state, Jq_pin, Jv_pin, i) ==
    LET x_obs == Segment(state, self.dims_.robot.x + i * 9, 9)
        Jq_pin_obs == MiddleCols(Jq_pin, self.dims_.robot.q + i * 3, 3)
        Jv_pin_obs == MiddleCols(Jv_pin, self.dims_.robot.v + i * 3, 3)
    IN  TI_getOcs2Jacobian(OBS, x_obs, Jq_pin_obs, Jv_pin_obs)

\* One pass of the obstacle loop: dfdx.middleCols(robot.x + i * 9, 9) = dfdx_obs;
\* the obstacle's dfdu goes to std::ignore.
getOcs2Jacobian_obs(self, OBS, state, Jq_pin, Jv_pin, J, i) ==
    LET pair == getOcs2Jacobian_obs_pair(self, OBS, state, Jq_pin, Jv_pin, i)
        b == dfdx_obs_block(self, i)
    IN  [dfdx |-> SetMiddleCols(J.dfdx, b.start, b.n, pair.dfdx),
         dfdu |-> J.dfdu]

\* The methods run from entry to return, the result allocated with g.
RECURSIVE getPinocchioJointPosition_loop(_, _, _, _, _)
getPinocchioJointPosition_loop(self, OBS, state, q_pin, i) ==
    IF i < self.dims_.o
    THEN getPinocchioJointPosition_loop(self, OBS, state,
             getPinocchioJointPosition_obs(self, OBS, state, q_pin, i), i + 1)
    ELSE q_pin

getPinocchioJointPosition(self, OBS, state, g) ==
    getPinocchioJointPosition_loop(self, OBS, state,
        getPinocchioJointPosition_robot(self, state,
            getPinocchioJointPosition_alloc(self, g)), 0)

RECURSIVE getPinocchioJointVelocity_loop(_, _, _, _, _)
getPinocchioJointVelocity_loop(self, OBS, state, v_pin, i) ==
    IF i < self.dims_.o
    THEN getPinocchioJointVelocity_loop(self, OBS, state,
             getPinocchioJointVelocity_obs(self, OBS, state, v_pin, i), i + 1)
    ELSE v_pin

getPinocchioJointVelocity(self, OBS, state, input, g) ==
    getPinocchioJointVelocity_loop(self, OBS, state,
        getPinocchioJointVelocity_robot(self, state, input,
            getPinocchioJointVelocity_alloc(self, g)), 0)

RECURSIVE getPinocchioJointAcceleration_loop(_, _, _, _, _)
getPinocchioJointAcceleration_loop(self, OBS, state, a_pin, i) ==
    IF i < self.dims_.o
    THEN getPinocchioJointAcceleration_loop(self, OBS, state,
             getPinocchioJointAcceleration_obs(self, OBS, state, a_pin, i), i + 1)
    ELSE a_pin

getPinocchioJointAcceleration(self, OBS, state, input, g) ==
    getPinocchioJointAcceleration_loop(self, OBS, state,
        getPinocchioJointAcceleration_robot(self, state, input,
            getPinocchioJointAcceleration_alloc(self, g)), 0)

RECURSIVE getOcs2Jacobian_loop(_, _, _, _, _, _, _)
getOcs2Jacobian_loop(self, OBS, state, Jq_pin, Jv_pin, J, i) ==
    IF i < self.dims_.o
    THEN getOcs2Jacobian_loop(self, OBS, state, Jq_pin, Jv_pin,
             getOcs2Jacobian_obs(self, OBS, state, Jq_pin, Jv_pin, J, i), i + 1)
    ELSE J

\* (when the robot's block assignments fit, or the build does not assert)
getOcs2Jacobian(self, OBS, state, Jq_pin, Jv_pin, g) ==
    getOcs2Jacobian_loop(self, OBS, state, Jq_pin, Jv_pin,
        getOcs2Jacobian_robot(self, state, Jq_pin, Jv_pin,
            getOcs2Jacobian_alloc(self, Jq_pin, g, g)), 0)

\* Mutant: the clone is built from the robot's dimensions alone and has no
\* obstacle.
System_clone_drops_obstacles(self) ==
    [dims_ |-> OptimizationDimensions(self.dims_.robot, 0),
     robot_mapping_ |-> self.robot_mapping_]

\* SystemPinocchioMapping::clone(): new SystemPinocchioMapping(*this)
System_clone(self) == [dims_ |-> self.dims_, robot_mapping_ |-> self.robot_mapping_]

\* TripleIntegratorPinocchioMapping::clone()
TI_clone(self) == [dims_ |-> self.dims_]

\* ------------------------------------------------------------ arguments
\* The arguments a caller passes, one family per seed: every coefficient of
\* a state or of a Jacobian is different from the others and from 0.  Seed 0
\* with robot.x = 2 and one obstacle is the state [10, 20, 1, ..., 9].
StateArg(robot_x, n, s) ==
    [k \in 1..n |-> IF k <= robot_x THEN 10 * k + 100 * s
                    ELSE (k - robot_x) + 100 * s]

InputArg(n, s) == [k \in 1..n |-> s + k - 1]

JArg(r, c, base, s) ==
    [rows |-> r, cols |-> c,
     a |-> [i \in 1..r |-> [j \in 1..c |-> 1000 * i + base + j + 100 * s]]]

JqArg(r, c, s) == JArg(r, c, 0, s)

JvArg(r, c, s) == JArg(r, c, 500, s)

Ops == {"getPinocchioJointPosition", "getPinocchioJointVelocity",
        "getPinocchioJointAcceleration", "getOcs2Jacobian"}

\* ---------------------------------------------------------------- state
VARIABLES
    OBSTACLE_PINOCCHIO_MAPPING,  \* the static mapping every instance shares
    systems,                     \* the SystemPinocchioMapping instances
    mappings,                    \* clones of OBSTACLE_PINOCCHIO_MAPPING
    calls                        \* per thread: the call it is executing

vars == <<OBSTACLE_PINOCCHIO_MAPPING, systems, mappings, calls>>

NoMat == ZeroMat(0, 0)

Idle ==
    [pc |-> "idle", target |-> [kind |-> "none", idx |-> 0], op |-> "none",
     state |-> <<>>, input |-> <<>>, Jq |-> NoMat, Jv |-> NoMat, i |-> 0,
     vec |-> <<>>, dfdx |-> NoMat, dfdu |-> NoMat, wx |-> <<>>, wu |-> <<>>]

\* Robot dimensions a SystemPinocchioMapping is constructed with: a state of
\* q + 2v entries (position, velocity, acceleration: the triple integrator's
\* own layout) or of q + v entries (position and velocity only).
RobotDims ==
    { RobotDimensions(q, v, x, u) :
        q \in 1..MaxN, v \in 1..MaxN, x \in 1..(3 * MaxN), u \in 0..MaxU }

AllDims ==
    { OptimizationDimensions(r, o) :
        r \in { rd \in RobotDims : rd.x \in {rd.q + rd.v, rd.q + 2 * rd.v} },
        o \in 0..MaxO }

\* Dimensions of the runs with two concurrent callers: one robot joint, one
\* input, one obstacle.
ConcDims == { d \in AllDims : d.robot.q = 1 /\ d.robot.v = 1 /\ d.robot.u = 1 /\ d.o = 1 }

InitWith(dimsSet, threads) ==
    /\ OBSTACLE_PINOCCHIO_MAPPING = TripleIntegratorPinocchioMapping(OBSTACLE_DIMENSIONS)
    /\ \E d \in dimsSet : systems = <<SystemPinocchioMapping(d)>>
    /\ mappings = <<>>
    /\ calls = [t \in threads |-> Idle]

Init == InitWith(AllDims, {"t1"})

InitConc == InitWith(ConcDims, {"t1", "t2"})

\* The process has been terminated by a failed eigen_assert.
Crashed == \E t \in DOMAIN calls : calls[t].pc = "aborted"

\* Runs with two callers interleave every step of every call; they use one
\* argument family, one-row Jacobians and at most one clone of each kind.
Concurrent == Cardinality(DOMAIN calls) > 1

Seeds == IF Concurrent THEN {0} ELSE 0..MaxSeed

Rows == IF Concurrent THEN {1} ELSE 0..MaxRows

InstCap == IF Concurrent THEN 2 ELSE MaxInst

CanCall(t) == ~Crashed /\ calls[t].pc = "idle"

\* The mapping a direct call is made on.
TargetMapping(tg) ==
    CASE tg.kind = "Obstacle" -> OBSTACLE_PINOCCHIO_MAPPING
      [] tg.kind = "ObstacleClone" -> mappings[tg.idx]
      [] tg.kind = "Robot" -> systems[tg.idx].robot_mapping_

MappingTargets ==
    {[kind |-> "Obstacle", idx |-> 0]}
    \cup {[kind |-> "ObstacleClone", idx |-> k] : k \in 1..Len(mappings)}
    \cup {[kind |-> "Robot", idx |-> k] : k \in 1..Len(systems)}

\* -------------------------------------------------------------- actions
\* A caller enters a method of SystemPinocchioMapping instance idx: the
\* arguments are bound and the result is allocated, not initialised.
CallSystem(t) ==
    /\ CanCall(t)
    /\ \E idx \in 1..Len(systems), op \in Ops, s \in Seeds,
          r \in Rows \cup {0}, gx \in Uninit, gu \in Uninit :
        LET self == systems[idx]
            d == self.dims_
            jac == op = "getOcs2Jacobian"
            Jq_pin == IF jac THEN JqArg(r, dims_q(d), s) ELSE NoMat
            Jv_pin == IF jac THEN JvArg(r, dims_v(d), s) ELSE NoMat
            J == getOcs2Jacobian_alloc(self, Jq_pin, gx, gu)
        IN  /\ IF jac THEN r \in Rows ELSE r = 0 /\ gu = 0
            /\ calls' = [calls EXCEPT ![t] =
                 [pc |-> "robot", target |-> [kind |-> "System", idx |-> idx],
                  op |-> op,
                  state |-> StateArg(d.robot.x, dims_x(d), s),
                  input |-> IF op \in {"getPinocchioJointVelocity",
                                        "getPinocchioJointAcceleration"}
                            THEN InputArg(dims_u(d), s) ELSE <<>>,
                  Jq |-> Jq_pin, Jv |-> Jv_pin, i |-> 0,
                  vec |-> CASE op = "getPinocchioJointPosition" ->
                                 getPinocchioJointPosition_alloc(self, gx)
                            [] op = "getPinocchioJointVelocity" ->
                                 getPinocchioJointVelocity_alloc(self, gx)
                            [] op = "getPinocchioJointAcceleration" ->
                                 getPinocchioJointAcceleration_alloc(self, gx)
                            [] OTHER -> <<>>,
                  dfdx |-> IF jac THEN J.dfdx ELSE NoMat,
                  dfdu |-> IF jac THEN J.dfdu ELSE NoMat,
                  wx |-> IF jac THEN [j \in 1..J.dfdx.cols |-> <<>>] ELSE <<>>,
                  wu |-> IF jac THEN [j \in 1..J.dfdu.cols |-> <<>>] ELSE <<>>]]
    /\ UNCHANGED <<OBSTACLE_PINOCCHIO_MAPPING, systems, mappings>>

\* The writers of each column after one more block assignment, by writer
\* `who`, to columns [b.start, b.start + b.n).  The robot's write is writer
\* -1, obstacle i's write is writer i.
Written(w, b, who) ==
    [j \in 1..Len(w) |->
        IF j > b.start /\ j <= b.start + b.n THEN Append(w[j], who) ELSE w[j]]

\* The robot's share: the held robot mapping is called on the robot's slices
\* and its result written to the front of the output.
RobotStep(t) ==
    LET c == calls[t]
        self == systems[c.target.idx]
    IN  /\ ~Crashed
        /\ c.pc = "robot"
        /\ c.op = "getOcs2Jacobian" =>
              getOcs2Jacobian_robot_fits(self, c.state, c.Jq, c.Jv)
        /\ calls' = [calls EXCEPT ![t] =
             CASE c.op = "getPinocchioJointPosition" ->
                    [c EXCEPT !.pc = "obs",
                       !.vec = getPinocchioJointPosition_robot(self, c.state, c.vec)]
               [] c.op = "getPinocchioJointVelocity" ->
                    [c EXCEPT !.pc = "obs",
                       !.vec = getPinocchioJointVelocity_robot(self, c.state, c.input, c.vec)]
               [] c.op = "getPinocchioJointAcceleration" ->
                    [c EXCEPT !.pc = "obs",
                       !.vec = getPinocchioJointAcceleration_robot(self, c.state, c.input, c.vec)]
               [] c.op = "getOcs2Jacobian" ->
                    LET J == getOcs2Jacobian_robot(self, c.state, c.Jq, c.Jv,
                                                   [dfdx |-> c.dfdx, dfdu |-> c.dfdu])
                    IN  [c EXCEPT !.pc = "obs", !.dfdx = J.dfdx, !.dfdu = J.dfdu,
                           !.wx = Written(c.wx, dfdx_robot_block(self), -1),
                           !.wu = Written(c.wu, dfdu_robot_block(self), -1)]]
        /\ UNCHANGED <<OBSTACLE_PINOCCHIO_MAPPING, systems, mappings>>

\* The robot mapping returned a dfdx or dfdu of another width than the block
\* it is assigned to.  Eigen checks block sizes with eigen_assert only: the
\* build either terminates there or copies over the destination block.
RobotStepMismatch(t) ==
    LET c == calls[t]
        self == systems[c.target.idx]
    IN  /\ ~Crashed
        /\ c.pc = "robot"
        /\ c.op = "getOcs2Jacobian"
        /\ ~getOcs2Jacobian_robot_fits(self, c.state, c.Jq, c.Jv)
        /\ \E asserts \in BOOLEAN :
             calls' = [calls EXCEPT ![t] =
               IF asserts THEN [c EXCEPT !.pc = "aborted"]
               ELSE LET J == getOcs2Jacobian_robot(self, c.state, c.Jq, c.Jv,
                                                   [dfdx |-> c.dfdx, dfdu |-> c.dfdu])
                    IN  [c EXCEPT !.pc = "obs", !.dfdx = J.dfdx, !.dfdu = J.dfdu,
                           !.wx = Written(c.wx, dfdx_robot_block(self), -1),
                           !.wu = Written(c.wu, dfdu_robot_block(self), -1)]]
        /\ UNCHANGED <<OBSTACLE_PINOCCHIO_MAPPING, systems, mappings>>

\* One pass of the obstacle loop: for (int i = 0; i < dims_.o; ++i)
ObsStep(t) ==
    LET c == calls[t]
        self == systems[c.target.idx]
        OBS == OBSTACLE_PINOCCHIO_MAPPING
    IN  /\ ~Crashed
        /\ c.pc = "obs"
        /\ c.i < self.dims_.o
        /\ calls' = [calls EXCEPT ![t] =
             CASE c.op = "getPinocchioJointPosition" ->
                    [c EXCEPT !.i = c.i + 1,
                       !.vec = getPinocchioJointPosition_obs(self, OBS, c.state, c.vec, c.i)]
               [] c.op = "getPinocchioJointVelocity" ->
                    [c EXCEPT !.i = c.i + 1,
                       !.vec = getPinocchioJointVelocity_obs(self, OBS, c.state, c.vec, c.i)]
               [] c.op = "getPinocchioJointAcceleration" ->
                    [c EXCEPT !.i = c.i + 1,
                       !.vec = getPinocchioJointAcceleration_obs(self, OBS, c.state, c.vec, c.i)]
               [] c.op = "getOcs2Jacobian" ->
                    LET J == getOcs2Jacobian_obs(self, OBS, c.state, c.Jq, c.Jv,
                                                 [dfdx |-> c.dfdx, dfdu |-> c.dfdu], c.i)
                    IN  [c EXCEPT !.i = c.i + 1, !.dfdx = J.dfdx, !.dfdu = J.dfdu,
                           !.wx = Written(c.wx, dfdx_obs_block(self, c.i), c.i)]]
        /\ UNCHANGED <<OBSTACLE_PINOCCHIO_MAPPING, systems, mappings>>

\* The loop is over: return q_pin / v_pin / a_pin / {dfdx, dfdu}.
Return(t) ==
    LET c == calls[t]
        self == systems[c.target.idx]
    IN  /\ ~Crashed
        /\ c.pc = "obs"
        /\ ~(c.i < self.dims_.o)
        /\ calls' = [calls EXCEPT ![t] = [c EXCEPT !.pc = "done"]]
        /\ UNCHANGED <<OBSTACLE_PINOCCHIO_MAPPING, systems, mappings>>

\* A direct call of a TripleIntegratorPinocchioMapping: the shared obstacle
\* mapping, one of its clones, or the robot mapping a system holds.
CallMapping(t) ==
    /\ CanCall(t)
    /\ \E tg \in MappingTargets, op \in Ops, s \in Seeds, r \in Rows \cup {0} :
        LET self == TargetMapping(tg)
            d == self.dims_
            jac == op = "getOcs2Jacobian"
            state == StateArg(d.x, d.x, s)
            input == IF op \in {"getPinocchioJointVelocity", "getPinocchioJointAcceleration"}
                     THEN InputArg(d.u, s) ELSE <<>>
            Jq == IF jac THEN JqArg(r, d.q, s) ELSE NoMat
            Jv == IF jac THEN JvArg(r, d.v, s) ELSE NoMat
            J == TI_getOcs2Jacobian(self, state, Jq, Jv)
        IN  /\ IF jac THEN r \in Rows ELSE r = 0
            /\ calls' = [calls EXCEPT ![t] =
                 [pc |-> "done", target |-> tg, op |-> op,
                  state |-> state, input |-> input, Jq |-> Jq, Jv |-> Jv, i |-> 0,
                  vec |-> CASE op = "getPinocchioJointPosition" ->
                                 TI_getPinocchioJointPosition(self, state)
                            [] op = "getPinocchioJointVelocity" ->
                                 TI_getPinocchioJointVelocity(self, state, input)
                            [] op = "getPinocchioJointAcceleration" ->
                                 TI_getPinocchioJointAcceleration(self, state, input)
                            [] OTHER -> <<>>,
                  dfdx |-> IF jac THEN J.dfdx ELSE NoMat,
                  dfdu |-> IF jac THEN J.dfdu ELSE NoMat,
                  wx |-> <<>>, wu |-> <<>>]]
    /\ UNCHANGED <<OBSTACLE_PINOCCHIO_MAPPING, systems, mappings>>

\* The caller has taken the returned value; the thread is free again.
Finish(t) ==
    /\ ~Crashed
    /\ calls[t].pc = "done"
    /\ calls' = [calls EXCEPT ![t] = Idle]
    /\ UNCHANGED <<OBSTACLE_PINOCCHIO_MAPPING, systems, mappings>>

\* SystemPinocchioMapping::clone() on instance idx.
Clone(idx) ==
    /\ ~Crashed
    /\ Len(systems) < InstCap
    /\ systems' = Append(systems, System_clone(systems[idx]))
    /\ UNCHANGED <<OBSTACLE_PINOCCHIO_MAPPING, mappings, calls>>

\* TripleIntegratorPinocchioMapping::clone() on the shared obstacle mapping.
CloneObstacle ==
    /\ ~Crashed
    /\ Len(mappings) + 1 < InstCap
    /\ mappings' = Append(mappings, TI_clone(OBSTACLE_PINOCCHIO_MAPPING))
    /\ UNCHANGED <<OBSTACLE_PINOCCHIO_MAPPING, systems, calls>>

Next ==
    \/ \E t \in DOMAIN calls : CallSystem(t)
    \/ \E t \in DOMAIN calls : RobotStep(t)
    \/ \E t \in DOMAIN calls : RobotStepMismatch(t)
    \/ \E t \in DOMAIN calls : ObsStep(t)
    \/ \E t \in DOMAIN calls : Return(t)
    \/ \E t \in DOMAIN calls : CallMapping(t)
    \/ \E t \in DOMAIN calls : Finish(t)
    \/ \E idx \in 1..Len(systems) : Clone(idx)
    \/ CloneObstacle

Spec == Init /\ [][Next]_vars

SpecConc == InitConc /\ [][Next]_vars

\* --------------------------------------------------------------- claims
JAC == "getOcs2Jacobian"

\* Threads inside, or returned from, method op of a SystemPinocchioMapping.
SysCalls(op) ==
    { t \in DOMAIN calls : calls[t].target.kind = "System" /\ calls[t].op = op }

Returned(op) == { t \in SysCalls(op) : calls[t].pc = "done" }

SelfOf(t) == systems[calls[t].target.idx]

\* The scenario of the specification: one robot joint, robot state [10, 20],
\* one obstacle with state 1..9.
ScenarioDims == OptimizationDimensions(RobotDimensions(1, 1, 2, 1), 1)

ScenarioState == <<10, 20, 1, 2, 3, 4, 5, 6, 7, 8, 9>>

\* C1: in one call of getOcs2Jacobian no column of dfdx is written twice,
\* and when the call returns every column of [0, robot.x + 9 o) has been
\* written exactly once: columns [0, robot.x) by the robot write, columns
\* [robot.x + 9 i, robot.x + 9 i + 9) by obstacle i's write.
C1_ColumnPartition ==
    \A t \in SysCalls(JAC) :
        LET c == calls[t]
            d == SelfOf(t).dims_
        IN  /\ \A j \in 1..Len(c.wx) : Len(c.wx[j]) <= 1
            /\ c.pc = "done" =>
                 /\ Len(c.wx) = d.robot.x + 9 * d.o
                 /\ c.dfdx.cols = d.robot.x + 9 * d.o
                 /\ \A j \in 1..d.robot.x : c.wx[j] = <<-1>>
                 /\ \A i \in 0..(d.o - 1) : \A k \in 1..9 :
                      c.wx[d.robot.x + 9 * i + k] = <<i>>

C1_Witness ==
    \E t \in Returned(JAC) :
        /\ SelfOf(t).dims_.o >= 2
        /\ calls[t].Jq.rows >= 1
        /\ \A j \in 1..Len(calls[t].wx) : Len(calls[t].wx[j]) = 1

\* C3: getPinocchioJointPosition returns a vector of length robot.q + 3 o:
\* entries [0, robot.q) are the robot mapping's position of state[0, robot.x),
\* entries [robot.q + 3 i, robot.q + 3 i + 3) are state[robot.x + 9 i, +3);
\* the scenario state gives [10, 1, 2, 3].
C3_Position ==
    \A t \in Returned("getPinocchioJointPosition") :
        LET c == calls[t]
            self == SelfOf(t)
            d == self.dims_
        IN  /\ Len(c.state) = d.robot.x + 9 * d.o
            /\ Len(c.vec) = d.robot.q + 3 * d.o
            /\ SubSeq(c.vec, 1, d.robot.q) =
                 TI_getPinocchioJointPosition(self.robot_mapping_,
                                              SubSeq(c.state, 1, d.robot.x))
            /\ \A i \in 0..(d.o - 1) : \A k \in 1..3 :
                 c.vec[d.robot.q + 3 * i + k] = c.state[d.robot.x + 9 * i + k]
            /\ (d = ScenarioDims /\ c.state = ScenarioState) => c.vec = <<10, 1, 2, 3>>

C3_Witness ==
    \E t \in Returned("getPinocchioJointPosition") :
        /\ SelfOf(t).dims_ = ScenarioDims
        /\ calls[t].state = ScenarioState
        /\ calls[t].vec = <<10, 1, 2, 3>>

\* C4: getPinocchioJointVelocity and getPinocchioJointAcceleration return
\* a vector of length robot.v + 3 o: entries [0, robot.v) are the robot
\* mapping's result on (state[0, robot.x), input[0, robot.u)), obstacle
\* block i is entries [3, 6) (velocity) or [6, 9) (acceleration) of obstacle
\* i's state block, whatever the input; the scenario gives [20, 4, 5, 6] and
\* [20, 7, 8, 9].
C4_VelocityAcceleration ==
    /\ \A t \in Returned("getPinocchioJointVelocity") :
        LET c == calls[t]
            self == SelfOf(t)
            d == self.dims_
        IN  /\ Len(c.state) = d.robot.x + 9 * d.o
            /\ Len(c.input) = d.robot.u
            /\ Len(c.vec) = d.robot.v + 3 * d.o
            /\ SubSeq(c.vec, 1, d.robot.v) =
                 TI_getPinocchioJointVelocity(self.robot_mapping_,
                     SubSeq(c.state, 1, d.robot.x), SubSeq(c.input, 1, d.robot.u))
            /\ \A i \in 0..(d.o - 1) : \A k \in 1..3 :
                 c.vec[d.robot.v + 3 * i + k] = c.state[d.robot.x + 9 * i + 3 + k]
            /\ (d = ScenarioDims /\ c.state = ScenarioState /\ c.input = <<0>>)
                 => c.vec = <<20, 4, 5, 6>>
    /\ \A t \in Returned("getPinocchioJointAcceleration") :
        LET c == calls[t]
            self == SelfOf(t)
            d == self.dims_
        IN  /\ Len(c.state) = d.robot.x + 9 * d.o
            /\ Len(c.input) = d.robot.u
            /\ Len(c.vec) = d.robot.v + 3 * d.o
            /\ SubSeq(c.vec, 1, d.robot.v) =
                 TI_getPinocchioJointAcceleration(self.robot_mapping_,
                     SubSeq(c.state, 1, d.robot.x), SubSeq(c.input, 1, d.robot.u))
            /\ \A i \in 0..(d.o - 1) : \A k \in 1..3 :
                 c.vec[d.robot.v + 3 * i + k] = c.state[d.robot.x + 9 * i + 6 + k]
            /\ (d = ScenarioDims /\ c.state = ScenarioState /\ c.input = <<0>>)
                 => c.vec = <<20, 7, 8, 9>>

C4_Witness ==
    \E t \in Returned("getPinocchioJointAcceleration") :
        /\ SelfOf(t).dims_ = ScenarioDims
        /\ calls[t].state = ScenarioState
        /\ calls[t].input = <<0>>
        /\ calls[t].vec = <<20, 7, 8, 9>>

\* C5: in the dfdx getOcs2Jacobian returns, obstacle i's columns
\* [robot.x + 9 i, +9) are, in every row, Jq_pin's columns [robot.q + 3 i, +3),
\* then Jv_pin's columns [robot.v + 3 i, +3), then three zeros.
C5_ObstacleColumns ==
    \A t \in Returned(JAC) :
        LET c == calls[t]
            d == SelfOf(t).dims_
        IN  \A i \in 0..(d.o - 1) : \A r \in 1..c.Jq.rows : \A k \in 1..3 :
              /\ c.dfdx.a[r][d.robot.x + 9 * i + k] = c.Jq.a[r][d.robot.q + 3 * i + k]
              /\ c.dfdx.a[r][d.robot.x + 9 * i + 3 + k] = c.Jv.a[r][d.robot.v + 3 * i + k]
              /\ c.dfdx.a[r][d.robot.x + 9 * i + 6 + k] = 0

C5_Witness ==
    \E t \in Returned(JAC) :
        LET d == SelfOf(t).dims_
        IN  /\ d.o >= 2
            /\ d.robot.q # d.robot.v
            /\ calls[t].Jq.rows >= 1
            /\ calls[t].dfdx.a[1][d.robot.x + 9 + 1] = calls[t].Jq.a[1][d.robot.q + 3 + 1]

\* C7: the obstacle mapping's getOcs2Jacobian, on a state of 9 entries and
\* Jq, Jv of 3 columns and any number of rows, returns a dfdu with that many
\* rows and no column, also when the system mapping calls it for obstacle i.
C7_ObstacleDfdu ==
    /\ \A t \in DOMAIN calls :
        LET c == calls[t]
        IN  (c.pc = "done" /\ c.op = JAC /\ c.target.kind \in {"Obstacle", "ObstacleClone"})
            => /\ Len(c.state) = 9 /\ c.Jq.cols = 3 /\ c.Jv.cols = 3
               /\ c.dfdu.rows = c.Jq.rows
               /\ c.dfdu.cols = 0
               /\ Len(c.dfdu.a) = c.Jq.rows
               /\ \A r \in 1..c.Jq.rows : c.dfdu.a[r] = <<>>
    /\ \A t \in SysCalls(JAC) :
        LET c == calls[t]
            self == SelfOf(t)
        IN  \A i \in 0..(self.dims_.o - 1) :
              LET pair == getOcs2Jacobian_obs_pair(self, OBSTACLE_PINOCCHIO_MAPPING,
                                                   c.state, c.Jq, c.Jv, i)
              IN  pair.dfdu.rows = c.Jq.rows /\ pair.dfdu.cols = 0

C7_Witness ==
    \E t \in DOMAIN calls :
        /\ calls[t].pc = "done" /\ calls[t].op = JAC
        /\ calls[t].target.kind = "Obstacle"
        /\ calls[t].Jq.rows >= 1
        /\ calls[t].dfdu = [rows |-> calls[t].Jq.rows, cols |-> 0,
                            a |-> [r \in 1..calls[t].Jq.rows |-> <<>>]]

\* C8: x() = robot.x + 9 o and u() = robot.u for every instance, and the
\* matrices getOcs2Jacobian returns have x() and u() columns and as many rows
\* as Jq_pin.
C8_Shapes ==
    /\ \A n \in 1..Len(systems) :
        /\ dims_x(systems[n].dims_) = systems[n].dims_.robot.x + 9 * systems[n].dims_.o
        /\ dims_u(systems[n].dims_) = systems[n].dims_.robot.u
    /\ \A t \in Returned(JAC) :
        LET c == calls[t]
            d == SelfOf(t).dims_
        IN  /\ c.dfdx.cols = d.robot.x + 9 * d.o
            /\ c.dfdu.cols = d.robot.u
            /\ c.dfdx.rows = c.Jq.rows /\ c.dfdu.rows = c.Jq.rows
            /\ Len(c.dfdx.a) = c.Jq.rows /\ Len(c.dfdu.a) = c.Jq.rows
            /\ \A r \in 1..c.Jq.rows :
                 Len(c.dfdx.a[r]) = dims_x(d) /\ Len(c.dfdu.a[r]) = dims_u(d)

C8_Witness ==
    \E t \in Returned(JAC) :
        LET d == SelfOf(t).dims_
        IN  /\ d.o >= 1 /\ d.robot.u >= 1 /\ calls[t].Jq.rows >= 1
            /\ calls[t].dfdx.cols = d.robot.x + 9 * d.o
            /\ calls[t].dfdu.cols = d.robot.u

\* What calling the held robot mapping directly on a call's own arguments
\* returns.
RobotDirectVec(t) ==
    LET c == calls[t]
        rm == SelfOf(t).robot_mapping_
    IN  CASE c.op = "getPinocchioJointPosition" ->
               TI_getPinocchioJointPosition(rm, c.state)
          [] c.op = "getPinocchioJointVelocity" ->
               TI_getPinocchioJointVelocity(rm, c.state, c.input)
          [] c.op = "getPinocchioJointAcceleration" ->
               TI_getPinocchioJointAcceleration(rm, c.state, c.input)

RobotDirectJac(t) ==
    TI_getOcs2Jacobian(SelfOf(t).robot_mapping_, calls[t].state, calls[t].Jq, calls[t].Jv)

\* The robot mapping's dfdx has the robot.x columns the system mapping
\* reserves for it: the triple integrator returns robot.q + 2 robot.v.
RobotJacobianFits(d) == d.robot.x = d.robot.q + 2 * d.robot.v

ScenarioJac ==
    { t \in SysCalls(JAC) :
        /\ SelfOf(t).dims_ = ScenarioDims
        /\ calls[t].Jq.rows = 1 /\ calls[t].Jq.cols = 4 /\ calls[t].Jv.cols = 4 }

ObsDirectJac(t, i) ==
    getOcs2Jacobian_obs_pair(SelfOf(t), OBSTACLE_PINOCCHIO_MAPPING,
                             calls[t].state, calls[t].Jq, calls[t].Jv, i)

C10_Original ==
    \A t \in SysCalls(JAC) :
        LET c == calls[t]
        IN  \A r \in 1..c.Jq.rows :
              /\ \A j \in 1..c.dfdx.cols : c.wx[j] = <<>> => c.dfdx.a[r][j] = 0
              /\ \A j \in 1..c.dfdu.cols : c.wu[j] = <<>> => c.dfdu.a[r][j] = 0

\* C10 amended: dfdx (rows, x()) and dfdu (rows, u()) are allocated without
\* being initialised; when the call returns, every column of both has been
\* overwritten by the robot write or an obstacle write, so that no entry of
\* the result is what the allocation left there.
C10_Amended ==
    \A t \in SysCalls(JAC) :
        LET c == calls[t]
            self == SelfOf(t)
            d == self.dims_
            pair == getOcs2Jacobian_robot_pair(self, c.state, c.Jq, c.Jv)
        IN  /\ c.dfdx.rows = c.Jq.rows /\ c.dfdx.cols = dims_x(d)
            /\ c.dfdu.rows = c.Jq.rows /\ c.dfdu.cols = dims_u(d)
            /\ c.pc = "done" =>
                 /\ \A j \in 1..c.dfdx.cols : c.wx[j] # <<>>
                 /\ \A j \in 1..c.dfdu.cols : c.wu[j] # <<>>
                 /\ \A r \in 1..c.Jq.rows :
                      /\ \A j \in 1..d.robot.x : c.dfdx.a[r][j] = pair.dfdx.a[r][j]
                      /\ \A i \in 0..(d.o - 1) : \A k \in 1..9 :
                           c.dfdx.a[r][d.robot.x + 9 * i + k] = ObsDirectJac(t, i).dfdx.a[r][k]
                      /\ \A j \in 1..d.robot.u : c.dfdu.a[r][j] = pair.dfdu.a[r][j]

C10_Witness ==
    \E t \in Returned(JAC) :
        LET c == calls[t]
        IN  /\ c.Jq.rows >= 1 /\ SelfOf(t).dims_.o >= 1 /\ c.dfdu.cols >= 1
            /\ \A j \in 1..c.dfdx.cols : c.wx[j] # <<>>
            /\ \A j \in 1..c.dfdu.cols : c.wu[j] # <<>>

\* What a returned call would have returned had it run alone, from entry to
\* return, on the same instance and arguments.
AloneOk(t) ==
    LET c == calls[t]
        OBS == OBSTACLE_PINOCCHIO_MAPPING
    IN  IF c.target.kind = "System"
        THEN LET self == SelfOf(t)
             IN  \A g \in Uninit :
                   CASE c.op = "getPinocchioJointPosition" ->
                          c.vec = getPinocchioJointPosition(self, OBS, c.state, g)
                     [] c.op = "getPinocchioJointVelocity" ->
                          c.vec = getPinocchioJointVelocity(self, OBS, c.state, c.input, g)
                     [] c.op = "getPinocchioJointAcceleration" ->
                          c.vec = getPinocchioJointAcceleration(self, OBS, c.state, c.input, g)
                     [] c.op = JAC ->
                          [dfdx |-> c.dfdx, dfdu |-> c.dfdu] =
                            getOcs2Jacobian(self, OBS, c.state, c.Jq, c.Jv, g)
        ELSE LET m == TargetMapping(c.target)
             IN  CASE c.op = "getPinocchioJointPosition" ->
                        c.vec = TI_getPinocchioJointPosition(m, c.state)
                   [] c.op = "getPinocchioJointVelocity" ->
                        c.vec = TI_getPinocchioJointVelocity(m, c.state, c.input)
                   [] c.op = "getPinocchioJointAcceleration" ->
                        c.vec = TI_getPinocchioJointAcceleration(m, c.state, c.input)
                   [] c.op = JAC ->
                        [dfdx |-> c.dfdx, dfdu |-> c.dfdu] =
                          TI_getOcs2Jacobian(m, c.state, c.Jq, c.Jv)

\* Two returned calls of the same method with the same arguments, one on
\* an instance and one on the same instance or a clone of it.
SameCall(t, u) ==
    /\ calls[t].pc = "done" /\ calls[u].pc = "done"
    /\ (calls[t].target.kind = "System") = (calls[u].target.kind = "System")
    /\ (calls[t].target.kind = "Robot") = (calls[u].target.kind = "Robot")
    /\ calls[t].op = calls[u].op
    /\ calls[t].state = calls[u].state /\ calls[t].input = calls[u].input
    /\ calls[t].Jq = calls[u].Jq /\ calls[t].Jv = calls[u].Jv

C9_Results ==
    /\ \A n \in 1..Len(systems) : systems[n] = systems[1]
    /\ \A k \in 1..Len(mappings) : mappings[k] = OBSTACLE_PINOCCHIO_MAPPING
    /\ \A t \in DOMAIN calls : calls[t].pc = "done" => AloneOk(t)
    /\ \A t \in DOMAIN calls : \A u \in DOMAIN calls :
         SameCall(t, u) =>
           /\ calls[t].vec = calls[u].vec
           /\ calls[t].dfdx = calls[u].dfdx
           /\ calls[t].dfdu = calls[u].dfdu

\* C9: no step of any method or of clone changes the shared obstacle
\* mapping or an existing instance's dimensions or held robot mapping; so
\* with two threads interleaving their calls on an instance and its clones,
\* every call returns what it would return run alone with the same
\* arguments, a clone is configured as the original, and equal calls on the
\* original and a clone return equal results.
C9_NoSharedState ==
    [][ /\ OBSTACLE_PINOCCHIO_MAPPING' = OBSTACLE_PINOCCHIO_MAPPING
        /\ Len(systems') >= Len(systems)
        /\ \A n \in 1..Len(systems) : systems'[n] = systems[n]
        /\ Len(mappings') >= Len(mappings)
        /\ \A k \in 1..Len(mappings) : mappings'[k] = mappings[k]
        /\ C9_Results' ]_vars

C9_Witness ==
    /\ calls["t1"].pc = "done" /\ calls["t2"].pc = "done"
    /\ calls["t1"].op = JAC
    /\ calls["t1"].target = [kind |-> "System", idx |-> 1]
    /\ calls["t2"].target = [kind |-> "System", idx |-> 2]
    /\ SameCall("t1", "t2")
    /\ calls["t1"].dfdx = calls["t2"].dfdx
    /\ RobotJacobianFits(systems[1].dims_)

====
